---- MODULE Spec2Model ----
(***************************************************************************)
(* Model of the descheduler control loop (Run, RunDeschedulerStrategies,   *)
(* cachedClient, initializeStratagies) and of the taint strategy           *)
(* (RemovePodsViolatingNodeTaintsStrategy).                                *)
(***************************************************************************)
EXTENDS Integers, Sequences, FiniteSets, TLC

VARIABLES
    pc,                \* position of RunDeschedulerStrategies / wait.NonSlidingUntil
    tick,              \* number of tick bodies started so far
    stopClosed,        \* stopChannel has been closed
    ctxDone,           \* the root context has been cancelled
    goroutine,         \* the goroutine of Run: "waiting" on ctx.Done() or "done"
    retErr,            \* what RunDeschedulerStrategies returned
    policy,            \* deschedulerPolicy (fixed at start)
    rs,                \* options.DeschedulerServer: DryRun, DeschedulingInterval
    nodes,             \* the ready nodes of the current tick
    fetched,           \* outcome of ReadyNodes in the current tick
    si, ni, pi,        \* strategy index, node index, pod index of the loops
    pods,              \* the pods listed for the current node
    running,           \* indexes of the strategies whose Run has not returned
    started,           \* strategies whose Run was called in this tick, in call order
    clusterPods,       \* pods of the real cluster (behind rs.Client)
    liveCache,         \* pods held by the pod informer of rs.Client
    fakePods,          \* pods held by the tracker of the fake client (dry run)
    fakeCache,         \* pods held by the pod informer of the fake client
    evictorClient,     \* client the pod evictor of this tick was built with
    listSource,        \* informer behind getPodsAssignedToNode
    evictor,           \* pod evictor: limits and counters
    evictorTick,       \* tick in which the current pod evictor was built
    snapshotTick,      \* tick in which the current dry-run snapshot was built
    listErr,           \* index of the strategy whose pod listing failed last in this tick (0: none)
    evictedBy,         \* pod -> index of the strategy that evicted it in this tick (0: none)
    reEvicted,         \* pods for which EvictPod was called again after a success in this tick
    lastEvict,         \* the last EvictPod call
    call,              \* a function of the taint strategy called on its own: its name and arguments
    callResult         \* what that call returned

vars == <<pc, tick, stopClosed, ctxDone, goroutine, retErr, policy, rs, nodes, fetched,
          si, ni, pi, pods, running, started, clusterPods, liveCache, fakePods, fakeCache,
          evictorClient, listSource, evictor, evictorTick, snapshotTick, listErr,
          evictedBy, reEvicted, lastEvict, call, callResult>>

loopVars == <<si, ni, pi, pods, running, started>>
storeVars == <<clusterPods, liveCache, fakePods, fakeCache>>
evictVars == <<evictor, evictedBy, reEvicted, lastEvict>>
buildVars == <<evictorClient, listSource, evictorTick, snapshotTick>>
cancelVars == <<ctxDone, goroutine>>
configVars == <<policy, rs>>
callVars == <<call, callResult>>

----------------------------------------------------------------------------
(* Bounds *)

MaxTicks == 2

MaxCap == 1

----------------------------------------------------------------------------
(* The cluster the model runs against *)

Nil == "nil"

NodeNames == {"n1", "n2"}

NodeTaints == [n1 |-> {[key |-> "k1", value |-> "", effect |-> "NoSchedule"]},
               n2 |-> {}]

PodOrder == <<"p1", "p2", "p3">>

AllPods == {PodOrder[i] : i \in 1..Len(PodOrder)}

PodNode == [p1 |-> "n1", p2 |-> "n1", p3 |-> "n2"]

PodNamespace == [p1 |-> "a", p2 |-> "b", p3 |-> "a"]

PodTolerations ==
    [p1 |-> {},
     p2 |-> {[key |-> "k1", operator |-> "Exists", value |-> "", effect |-> "NoSchedule"]},
     p3 |-> {}]

Namespaces == {PodNamespace[p] : p \in AllPods}

\* what nodeutil.ReadyNodes can hand back besides an error
ReadyNodeLists == {<<>>, <<"n1">>, <<"n1", "n2">>}

----------------------------------------------------------------------------
(* Policy and options *)

\* mutant of strategyList: PodLifeTime is appended before the taint strategy
strategyList_Swapped ==
    <<"RemoveDuplicates",
      "LowNodeUtilization",
      "HighNodeUtilization",
      "RemovePodsViolatingInterPodAntiAffinity",
      "RemovePodsViolatingNodeAffinity",
      "PodLifeTime",
      "RemovePodsHavingTooManyRestarts",
      "RemovePodsViolatingNodeTaints",
      "RemovePodsViolatingTopologySpreadConstraint",
      "RemoveFailedPods">>

\* the order in which initializeStratagies appends the strategies
strategyList ==
    <<"RemoveDuplicates",
      "LowNodeUtilization",
      "HighNodeUtilization",
      "RemovePodsViolatingInterPodAntiAffinity",
      "RemovePodsViolatingNodeAffinity",
      "RemovePodsViolatingNodeTaints",
      "RemovePodsHavingTooManyRestarts",
      "PodLifeTime",
      "RemovePodsViolatingTopologySpreadConstraint",
      "RemoveFailedPods">>

StrategyNames == {strategyList[i] : i \in 1..Len(strategyList)}

\* RemovePodsViolatingNodeTaintsStrategy.Name
TaintStrategyName == "RemovePodsViolatingNodeTaints"

\* api.StrategyParameters of the taint strategy, as far as the strategy reads them
\* (IsNil: the Params pointer is nil; ThresholdPriority: <<>> is a nil pointer)
NilParams ==
    [IsNil |-> TRUE, Include |-> {}, Exclude |-> {}, ThresholdPriority |-> <<>>,
     ThresholdPriorityClassName |-> "", NodeFit |-> FALSE, LabelSelector |-> "nil",
     IncludePreferNoSchedule |-> FALSE, ExcludedTaints |-> {}]

ParamsBothNamespaces ==
    [IsNil |-> FALSE, Include |-> {"a"}, Exclude |-> {"b"}, ThresholdPriority |-> <<>>,
     ThresholdPriorityClassName |-> "", NodeFit |-> FALSE, LabelSelector |-> "nil",
     IncludePreferNoSchedule |-> FALSE, ExcludedTaints |-> {}]

\* api.StrategyList: a map from strategy name to api.DeschedulerStrategy
StrategyMap(names, enabled, taintParams) ==
    [n \in names |->
        [Enabled |-> n \in enabled,
         Params |-> IF n = TaintStrategyName THEN taintParams ELSE NilParams]]

StrategyMaps ==
    { StrategyMap(StrategyNames, {}, NilParams),
      StrategyMap(StrategyNames, {TaintStrategyName}, NilParams),
      StrategyMap(StrategyNames, {TaintStrategyName, "PodLifeTime"}, NilParams),
      StrategyMap(StrategyNames, {"RemoveDuplicates", TaintStrategyName}, NilParams),
      StrategyMap(StrategyNames, {TaintStrategyName}, ParamsBothNamespaces),
      StrategyMap(StrategyNames \ {TaintStrategyName}, {"PodLifeTime"}, NilParams) }

\* values of MaxNoOfPodsToEvictPerNode and MaxNoOfPodsToEvictPerNamespace
\* (a *uint: <<>> is the nil pointer, <<c>> points to c)
CapValues == {<<>>} \cup {<<c>> : c \in 1..MaxCap}

Policies ==
    [Strategies : StrategyMaps,
     MaxNoOfPodsToEvictPerNode : CapValues,
     MaxNoOfPodsToEvictPerNamespace : CapValues]

\* DeschedulingInterval is kept as "zero or not"
Options == [DryRun : BOOLEAN, IntervalZero : BOOLEAN]

----------------------------------------------------------------------------
(* Pod evictor *)

ZeroCounts(S) == [x \in S |-> 0]

\* evictions.NewPodEvictor: limits of the policy, counters at zero
NewPodEvictor(maxPerNode, maxPerNamespace) ==
    [maxPodsToEvictPerNode |-> maxPerNode,
     maxPodsToEvictPerNamespace |-> maxPerNamespace,
     nodepodCount |-> ZeroCounts(NodeNames),
     namespacePodCount |-> ZeroCounts(Namespaces),
     totalEvicted |-> 0]

\* mutant of AtCap: the cap is reached one eviction late
AtCap_OneLate(cap, count) == cap # <<>> /\ count > cap[1]

\* a counter is at its cap; a nil cap never is
AtCap(cap, count) == cap # <<>> /\ count >= cap[1]

\* the reactor cachedClient prepends to the fake client: an eviction is a
\* delete of the pod from the tracker, and fails when the delete fails
FakeEvict(store, pod) ==
    [ok |-> pod \in store, store |-> store \ {pod}]

\* the eviction API of the real cluster: it may reject the eviction (apiOk)
LiveEvict(store, pod, apiOk) ==
    [ok |-> pod \in store /\ apiOk,
     store |-> IF pod \in store /\ apiOk THEN store \ {pod} ELSE store]

NoEvict == [tick |-> 0, si |-> 0, pod |-> Nil, node |-> Nil, reason |-> Nil,
            result |-> Nil, target |-> Nil]

\* PodEvictor.EvictPod(pod, node, reason): check the caps, issue the eviction
\* against the client the evictor was built with, count a success
EvictPod(pod, node, reason, apiOk) ==
    LET ns == PodNamespace[pod]
        capped == \/ AtCap(evictor.maxPodsToEvictPerNode, evictor.nodepodCount[node])
                  \/ AtCap(evictor.maxPodsToEvictPerNamespace, evictor.namespacePodCount[ns])
        fake == FakeEvict(fakePods, pod)
        live == LiveEvict(clusterPods, pod, apiOk)
        ok == ~capped /\ (IF evictorClient = "fake" THEN fake.ok ELSE live.ok)
        result == IF capped THEN "capped" ELSE IF ok THEN "evicted" ELSE "error"
    IN  /\ fakePods' = IF ~capped /\ evictorClient = "fake" THEN fake.store ELSE fakePods
        /\ clusterPods' = IF ~capped /\ evictorClient = "live" THEN live.store ELSE clusterPods
        /\ evictor' = IF ok
                      THEN [evictor EXCEPT !.nodepodCount[node] = @ + 1,
                                           !.namespacePodCount[ns] = @ + 1,
                                           !.totalEvicted = @ + 1]
                      ELSE evictor
        /\ lastEvict' = [tick |-> tick, si |-> si, pod |-> pod, node |-> node,
                         reason |-> reason, result |-> result,
                         target |-> IF capped THEN "none" ELSE evictorClient]
        /\ evictedBy' = IF ok THEN [evictedBy EXCEPT ![pod] = si] ELSE evictedBy
        /\ reEvicted' = IF evictedBy[pod] # 0 THEN reEvicted \cup {pod} ELSE reEvicted
        /\ UNCHANGED <<liveCache, fakeCache>>

----------------------------------------------------------------------------
(* Taints, tolerations and the pod filter *)

\* v1.Toleration.ToleratesTaint
ToleratesTaint(toleration, taint) ==
    /\ toleration.effect = "" \/ toleration.effect = taint.effect
    /\ toleration.key = "" \/ toleration.key = taint.key
    /\ \/ toleration.operator = "Exists"
       \/ toleration.operator \in {"", "Equal"} /\ toleration.value = taint.value

\* utils.TolerationsTolerateTaintsWithFilter: every taint the filter keeps is
\* tolerated by some toleration (applyFilter maps each taint to the filter's verdict)
TolerationsTolerateTaintsWithFilter(tolerations, taints, applyFilter) ==
    \A taint \in {t \in taints : applyFilter[t]} :
        \E toleration \in tolerations : ToleratesTaint(toleration, taint)

\* the taint filter Run passes: taints with effect NoSchedule
NoScheduleFilter(taint) == taint.effect = "NoSchedule"

\* the test of the taint strategy's pod loop on a pod's tolerations and a
\* node's taints
NotAllNoScheduleTolerated(tolerations, taints) ==
    ~TolerationsTolerateTaintsWithFilter(tolerations, taints,
                                         [t \in taints |-> NoScheduleFilter(t)])

\* mutant of ViolatesNodeTaints: the pod's tolerations are not looked at
ViolatesNodeTaints_AnyTaint(pod, node) ==
    \E t \in NodeTaints[node] : NoScheduleFilter(t)

\* the violator test of the taint strategy's pod loop
ViolatesNodeTaints(pod, node) ==
    NotAllNoScheduleTolerated(PodTolerations[pod], NodeTaints[node])

\* mutant of validateRemovePodsViolatingNodeTaintsParams: the namespaces are
\* not looked at
validateParams_ThresholdOnly(params) ==
    IF params.IsNil THEN FALSE
    ELSE params.ThresholdPriority # <<>> /\ params.ThresholdPriorityClassName # ""

\* validateRemovePodsViolatingNodeTaintsParams: TRUE when it returns an error
validateRemovePodsViolatingNodeTaintsParams(params) ==
    IF params.IsNil THEN FALSE
    ELSE \/ params.Include # {} /\ params.Exclude # {}
         \/ params.ThresholdPriority # <<>> /\ params.ThresholdPriorityClassName # ""

\* the filter built by podutil.NewOptions()...BuildFilterFunc(): namespaces
\* included and excluded (every pod of this cluster is evictable)
PodFilter(params, pod) ==
    /\ params.Include = {} \/ PodNamespace[pod] \in params.Include
    /\ PodNamespace[pod] \notin params.Exclude

\* the pod cache getPodsAssignedToNode reads
ListCache == IF listSource = "fake" THEN fakeCache ELSE liveCache

\* podutil.ListAllPodsOnANode: the cached pods assigned to the node that pass
\* the filter, in the order of the index
ListAllPodsOnANode(node, params) ==
    SelectSeq(PodOrder, LAMBDA p : p \in ListCache /\ PodNode[p] = node /\ PodFilter(params, p))

----------------------------------------------------------------------------
(* Start of the process *)

RunInit ==
    /\ pc = "init"
    /\ tick = 0
    /\ stopClosed = FALSE
    /\ ctxDone = FALSE
    /\ goroutine = "waiting"
    /\ retErr = Nil
    /\ policy \in Policies
    /\ rs \in Options
    /\ nodes = <<>>
    /\ fetched = "none"
    /\ si = 0 /\ ni = 0 /\ pi = 0
    /\ pods = <<>>
    /\ running = {}
    /\ started = <<>>
    /\ clusterPods = AllPods
    /\ liveCache = AllPods
    /\ fakePods = {}
    /\ fakeCache = {}
    /\ evictorClient = "none"
    /\ listSource = "live"
    /\ evictor = NewPodEvictor(<<>>, <<>>)
    /\ evictorTick = 0
    /\ snapshotTick = 0
    /\ listErr = 0
    /\ evictedBy = ZeroCounts(AllPods)
    /\ reEvicted = {}
    /\ lastEvict = NoEvict

\* no function of the taint strategy is called on its own
NoCall == [fn |-> "none", params |-> NilParams, tolerations |-> {}, taints |-> {}]

Init ==
    /\ RunInit
    /\ call = NoCall
    /\ callResult = Nil

\* the process has neither returned from RunDeschedulerStrategies nor crashed
Alive == pc \notin {"returned", "panicked"}

\* close(stopChannel) by the tick body: closing a closed channel panics
CloseStopChannel(next) ==
    IF stopClosed
    THEN pc' = "panicked" /\ UNCHANGED stopClosed
    ELSE pc' = next /\ stopClosed' = TRUE

----------------------------------------------------------------------------
(* Run: the context and the goroutine tying it to stopChannel *)

\* the root context is cancelled from outside
CancelCtx ==
    /\ Alive
    /\ ~ctxDone
    /\ ctxDone' = TRUE
    /\ UNCHANGED <<pc, tick, stopClosed, goroutine, retErr, configVars, callVars, listErr, nodes, fetched,
                   loopVars, storeVars, buildVars, evictVars>>

\* go func() { <-ctx.Done(); close(stopChannel) }()
GoroutineClose ==
    /\ Alive
    /\ goroutine = "waiting"
    /\ ctxDone
    /\ goroutine' = "done"
    /\ IF stopClosed
       THEN pc' = "panicked" /\ UNCHANGED stopClosed
       ELSE stopClosed' = TRUE /\ UNCHANGED pc
    /\ UNCHANGED <<tick, ctxDone, retErr, configVars, callVars, listErr, nodes, fetched,
                   loopVars, storeVars, buildVars, evictVars>>

----------------------------------------------------------------------------
(* The informers *)

\* the pod informer started on rs.Client follows the cluster
LiveInformerSync ==
    /\ Alive
    /\ liveCache # clusterPods
    /\ liveCache' = clusterPods
    /\ UNCHANGED <<pc, tick, stopClosed, cancelVars, retErr, configVars, callVars, listErr, nodes, fetched,
                   loopVars, clusterPods, fakePods, fakeCache, buildVars, evictVars>>

\* the pod informer started on the fake client follows its tracker until the
\* tick ends (defer cncl())
FakeInformerSync ==
    /\ pc \in {"evictor", "strategies", "list", "pods"}
    /\ listSource = "fake"
    /\ fakeCache # fakePods
    /\ fakeCache' = fakePods
    /\ UNCHANGED <<pc, tick, stopClosed, cancelVars, retErr, configVars, callVars, listErr, nodes, fetched,
                   loopVars, clusterPods, liveCache, fakePods, buildVars, evictVars>>

----------------------------------------------------------------------------
(* RunDeschedulerStrategies *)

\* mutant of initializeStratagies: a missing entry is not an error
initializeStratagies_Lenient(strategies) ==
    \A i \in 1..Len(strategyList) : strategyList[i] \in StrategyNames

\* initializeStratagies: every constructor looks its name up in the policy's
\* strategy map and fails when it is missing
initializeStratagies(strategies) ==
    \A i \in 1..Len(strategyList) : strategyList[i] \in DOMAIN strategies

\* strategyList, err := initializeStratagies(...); if err != nil { return err }
InitializeStrategies ==
    /\ pc = "init"
    /\ IF initializeStratagies(policy.Strategies)
       THEN pc' = "loop" /\ UNCHANGED retErr
       ELSE pc' = "returned" /\ retErr' = "error"
    /\ UNCHANGED <<tick, stopClosed, cancelVars, configVars, callVars, listErr, nodes, fetched,
                   loopVars, storeVars, buildVars, evictVars>>

\* wait.NonSlidingUntil, top of the loop: stopChannel closed, return nil
LoopStop ==
    /\ pc = "loop"
    /\ stopClosed
    /\ pc' = "returned"
    /\ retErr' = Nil
    /\ UNCHANGED <<tick, stopClosed, cancelVars, configVars, callVars, listErr, nodes, fetched,
                   loopVars, storeVars, buildVars, evictVars>>

\* wait.NonSlidingUntil, top of the loop: stopChannel open, call the tick body
TickStart ==
    /\ pc = "loop"
    /\ ~stopClosed
    /\ tick < MaxTicks
    /\ tick' = tick + 1
    /\ pc' = "readyNodes"
    /\ nodes' = <<>>
    /\ fetched' = "none"
    /\ si' = 0 /\ ni' = 0 /\ pi' = 0
    /\ pods' = <<>>
    /\ running' = {}
    /\ started' = <<>>
    /\ evictedBy' = ZeroCounts(AllPods)
    /\ reEvicted' = {}
    /\ lastEvict' = NoEvict
    /\ listErr' = 0
    /\ UNCHANGED <<stopClosed, cancelVars, retErr, configVars, callVars, storeVars, buildVars, evictor>>

\* mutant of ClusterTooSmall: only an empty node list stops the tick
ClusterTooSmall_OnlyEmpty(readyNodes) == Len(readyNodes) < 1

\* if len(nodes) <= 1
ClusterTooSmall(readyNodes) == Len(readyNodes) <= 1

\* nodeutil.ReadyNodes and the two checks that follow it
FetchReadyNodes ==
    /\ pc = "readyNodes"
    /\ \/ /\ fetched' = "err"
          /\ nodes' = <<>>
          /\ CloseStopChannel("wait")
       \/ \E readyNodes \in ReadyNodeLists :
            /\ fetched' = "ok"
            /\ nodes' = readyNodes
            /\ IF ClusterTooSmall(readyNodes)
               THEN CloseStopChannel("wait")
               ELSE /\ pc' = IF rs.DryRun THEN "snapshot" ELSE "evictor"
                    /\ UNCHANGED stopClosed
    /\ UNCHANGED <<tick, cancelVars, retErr, configVars, callVars, listErr, loopVars, storeVars, buildVars,
                   evictVars>>

\* mutant of BuildCachedClient: a failed snapshot closes stopChannel
BuildCachedClient_CloseOnError ==
    /\ pc = "snapshot"
    /\ \/ \* cachedClient returns an error
          /\ pc' = "wait"
          /\ stopClosed' = TRUE
          /\ UNCHANGED <<storeVars, listSource, snapshotTick>>
       \/ \* BuildGetPodsAssignedToNodeFunc returns an error
          /\ pc' = "wait"
          /\ stopClosed' = TRUE
          /\ fakePods' = liveCache
          /\ listSource' = "none"
          /\ UNCHANGED snapshotTick
          /\ UNCHANGED <<clusterPods, liveCache, fakeCache>>
       \/ /\ pc' = "evictor"
          /\ fakePods' = liveCache
          /\ fakeCache' = liveCache
          /\ listSource' = "fake"
          /\ snapshotTick' = tick
          /\ UNCHANGED <<clusterPods, liveCache, stopClosed>>
    /\ UNCHANGED <<tick, cancelVars, retErr, configVars, callVars, listErr, nodes, fetched,
                   loopVars, evictorClient, evictorTick, evictVars>>

\* if rs.DryRun: cachedClient copies the pods of the live informer into the
\* tracker of a fake client, and getPodsAssignedToNode is rebuilt on an
\* informer of the fake client that is started and synced
BuildCachedClient ==
    /\ pc = "snapshot"
    /\ \/ \* cachedClient returns an error
          /\ pc' = "wait"
          /\ UNCHANGED <<storeVars, listSource, snapshotTick>>
       \/ \* BuildGetPodsAssignedToNodeFunc returns an error
          /\ pc' = "wait"
          /\ fakePods' = liveCache
          /\ listSource' = "none"
          /\ UNCHANGED snapshotTick
          /\ UNCHANGED <<clusterPods, liveCache, fakeCache>>
       \/ /\ pc' = "evictor"
          /\ fakePods' = liveCache
          /\ fakeCache' = liveCache
          /\ listSource' = "fake"
          /\ snapshotTick' = tick
          /\ UNCHANGED <<clusterPods, liveCache>>
    /\ UNCHANGED <<tick, stopClosed, cancelVars, retErr, configVars, callVars, listErr, nodes, fetched,
                   loopVars, evictorClient, evictorTick, evictVars>>

\* mutant of PodEvictorClient: the evictor always gets rs.Client
PodEvictorClient_AlwaysLive == "live"

\* podEvictorClient: the fake client in a dry run, rs.Client otherwise
PodEvictorClient == IF rs.DryRun THEN "fake" ELSE "live"

\* mutant of EvictorLimits: the two limits are passed in each other's place
EvictorLimits_Swapped ==
    <<policy.MaxNoOfPodsToEvictPerNamespace, policy.MaxNoOfPodsToEvictPerNode>>

\* the limits NewPodEvictor is called with: deschedulerPolicy.MaxNoOfPodsToEvictPerNode,
\* deschedulerPolicy.MaxNoOfPodsToEvictPerNamespace
EvictorLimits ==
    <<policy.MaxNoOfPodsToEvictPerNode, policy.MaxNoOfPodsToEvictPerNamespace>>

\* mutant of TickEvictor: the evictor of the first tick is kept for the later ones
TickEvictor_Reused ==
    IF evictorTick = 0 THEN NewPodEvictor(EvictorLimits[1], EvictorLimits[2]) ELSE evictor

\* the pod evictor of a tick: a new one, built inside the tick body
TickEvictor == NewPodEvictor(EvictorLimits[1], EvictorLimits[2])

\* podEvictor := evictions.NewPodEvictor(podEvictorClient, ..., MaxNoOfPodsToEvictPerNode,
\* MaxNoOfPodsToEvictPerNamespace, nodes, ...)
BuildPodEvictor ==
    /\ pc = "evictor"
    /\ evictor' = TickEvictor
    /\ evictorClient' = PodEvictorClient
    /\ evictorTick' = tick
    /\ si' = 1
    /\ pc' = "strategies"
    /\ UNCHANGED <<tick, stopClosed, cancelVars, retErr, configVars, callVars, listErr, nodes, fetched,
                   ni, pi, pods, running, started, storeVars, listSource, snapshotTick,
                   evictedBy, reEvicted, lastEvict>>

----------------------------------------------------------------------------
(* The strategy loop of the tick body *)

CurrentName == strategyList[si]

CurrentStrategy == policy.Strategies[CurrentName]

\* Strategy.Enabled
Enabled(name) == policy.Strategies[name].Enabled

\* Run returns to the strategy loop
FinishRun ==
    /\ si' = si + 1
    /\ running' = running \ {si}
    /\ ni' = 0 /\ pi' = 0
    /\ pods' = <<>>
    /\ pc' = "strategies"

\* the node loop of Run moves on: next node, or Run returns after the last one
NextNode ==
    IF ni < Len(nodes)
    THEN /\ ni' = ni + 1
         /\ pi' = 0
         /\ pods' = <<>>
         /\ pc' = "list"
         /\ UNCHANGED <<si, running>>
    ELSE FinishRun

\* the pod loop of Run moves on: next pod, or next node on a break or after
\* the last pod
NextPod(break) ==
    IF break \/ pi = Len(pods)
    THEN NextNode
    ELSE /\ pi' = pi + 1
         /\ UNCHANGED <<pc, si, ni, pods, running>>

\* mutant of SkipStrategy: a disabled strategy ends the strategy loop and
\* closes stopChannel
SkipStrategy_Fatal ==
    /\ pc = "strategies"
    /\ si <= Len(strategyList)
    /\ ~Enabled(CurrentName)
    /\ si' = Len(strategyList) + 1
    /\ stopClosed' = TRUE
    /\ UNCHANGED <<pc, tick, cancelVars, retErr, configVars, callVars, listErr, nodes, fetched,
                   ni, pi, pods, running, started, storeVars, buildVars, evictVars>>

\* strategy.Enabled() is false: log "skipping strategy" and go on
SkipStrategy ==
    /\ pc = "strategies"
    /\ si <= Len(strategyList)
    /\ ~Enabled(CurrentName)
    /\ si' = si + 1
    /\ UNCHANGED <<pc, tick, stopClosed, cancelVars, retErr, configVars, callVars, listErr, nodes, fetched,
                   ni, pi, pods, running, started, storeVars, buildVars, evictVars>>

\* strategy.Run of the taint strategy up to its node loop: it returns at once
\* on invalid params or when the priority threshold cannot be resolved
TaintRunStart ==
    /\ pc = "strategies"
    /\ si <= Len(strategyList)
    /\ CurrentName = TaintStrategyName
    /\ Enabled(CurrentName)
    /\ started' = Append(started, CurrentName)
    /\ IF validateRemovePodsViolatingNodeTaintsParams(CurrentStrategy.Params)
       THEN /\ si' = si + 1
            /\ UNCHANGED <<pc, ni, pi, pods, running>>
       ELSE \E resolved \in (IF CurrentStrategy.Params.ThresholdPriorityClassName = ""
                             THEN {TRUE} ELSE BOOLEAN) :
              IF resolved
              THEN /\ running' = running \cup {si}
                   /\ ni' = 1
                   /\ pc' = "list"
                   /\ UNCHANGED <<si, pi, pods>>
              ELSE /\ si' = si + 1
                   /\ UNCHANGED <<pc, ni, pi, pods, running>>
    /\ UNCHANGED <<tick, stopClosed, cancelVars, retErr, configVars, callVars, listErr, nodes, fetched,
                   storeVars, buildVars, evictVars>>

\* mutant of TaintListPods: a failed listing skips the node instead of returning
TaintListPods_ContinueOnError ==
    /\ pc = "list"
    /\ CurrentName = TaintStrategyName
    /\ \/ /\ NextNode
          /\ listErr' = si
       \/ LET listed == ListAllPodsOnANode(nodes[ni], CurrentStrategy.Params)
          IN  /\ IF listed = <<>>
                 THEN NextNode
                 ELSE /\ pods' = listed
                      /\ pi' = 1
                      /\ pc' = "pods"
                      /\ UNCHANGED <<si, ni, running>>
              /\ UNCHANGED listErr
    /\ UNCHANGED <<tick, stopClosed, cancelVars, retErr, configVars, callVars, nodes, fetched,
                   started, storeVars, buildVars, evictVars>>

\* the node loop of the taint strategy: list the pods of the next node; a
\* failed listing returns from Run
TaintListPods ==
    /\ pc = "list"
    /\ CurrentName = TaintStrategyName
    /\ \/ /\ FinishRun
          /\ listErr' = si
       \/ LET listed == ListAllPodsOnANode(nodes[ni], CurrentStrategy.Params)
          IN  /\ IF listed = <<>>
                 THEN NextNode
                 ELSE /\ pods' = listed
                      /\ pi' = 1
                      /\ pc' = "pods"
                      /\ UNCHANGED <<si, ni, running>>
              /\ UNCHANGED listErr
    /\ UNCHANGED <<tick, stopClosed, cancelVars, retErr, configVars, callVars, nodes, fetched,
                   started, storeVars, buildVars, evictVars>>

\* mutant of TaintPodStep: an eviction error does not break out of the pod loop
TaintPodStep_ContinueOnError ==
    /\ pc = "pods"
    /\ CurrentName = TaintStrategyName
    /\ IF ViolatesNodeTaints(pods[pi], nodes[ni])
       THEN \E apiOk \in BOOLEAN :
              /\ EvictPod(pods[pi], nodes[ni], "NodeTaint", apiOk)
              /\ NextPod(FALSE)
       ELSE /\ NextPod(FALSE)
            /\ UNCHANGED <<storeVars, evictVars>>
    /\ UNCHANGED <<tick, stopClosed, cancelVars, retErr, configVars, callVars, listErr, nodes, fetched,
                   started, buildVars>>

\* one iteration of the pod loop of the taint strategy: a pod that does not
\* tolerate the node's NoSchedule taints is evicted; an eviction error breaks
\* out of the pod loop
TaintPodStep ==
    /\ pc = "pods"
    /\ CurrentName = TaintStrategyName
    /\ IF ViolatesNodeTaints(pods[pi], nodes[ni])
       THEN \E apiOk \in BOOLEAN :
              /\ EvictPod(pods[pi], nodes[ni], "NodeTaint", apiOk)
              /\ NextPod(lastEvict'.result = "error")
       ELSE /\ NextPod(FALSE)
            /\ UNCHANGED <<storeVars, evictVars>>
    /\ UNCHANGED <<tick, stopClosed, cancelVars, retErr, configVars, callVars, listErr, nodes, fetched,
                   started, buildVars>>

\* strategy.Run of any other strategy: the strategy contract
OtherRunStart ==
    /\ pc = "strategies"
    /\ si <= Len(strategyList)
    /\ CurrentName # TaintStrategyName
    /\ Enabled(CurrentName)
    /\ started' = Append(started, CurrentName)
    /\ running' = running \cup {si}
    /\ ni' = 1
    /\ pc' = "list"
    /\ UNCHANGED <<si, pi, pods>>
    /\ UNCHANGED <<tick, stopClosed, cancelVars, retErr, configVars, callVars, listErr, nodes, fetched,
                   storeVars, buildVars, evictVars>>

\* any other strategy lists the pods of the next node
OtherListPods ==
    /\ pc = "list"
    /\ CurrentName # TaintStrategyName
    /\ \/ /\ FinishRun
          /\ listErr' = si
       \/ LET listed == ListAllPodsOnANode(nodes[ni], CurrentStrategy.Params)
          IN  /\ IF listed = <<>>
                 THEN NextNode
                 ELSE /\ pods' = listed
                      /\ pi' = 1
                      /\ pc' = "pods"
                      /\ UNCHANGED <<si, ni, running>>
              /\ UNCHANGED listErr
    /\ UNCHANGED <<tick, stopClosed, cancelVars, retErr, configVars, callVars, nodes, fetched,
                   started, storeVars, buildVars, evictVars>>

\* any other strategy decides by its own rule whether the pod is a violator,
\* evicts it if so, and decides itself whether an eviction error ends the node
OtherPodStep ==
    /\ pc = "pods"
    /\ CurrentName # TaintStrategyName
    /\ \/ /\ NextPod(FALSE)
          /\ UNCHANGED <<storeVars, evictVars>>
       \/ \E apiOk \in BOOLEAN, abandon \in BOOLEAN :
              /\ EvictPod(pods[pi], nodes[ni], CurrentName, apiOk)
              /\ NextPod(lastEvict'.result = "error" /\ abandon)
    /\ UNCHANGED <<tick, stopClosed, cancelVars, retErr, configVars, callVars, listErr, nodes, fetched,
                   started, buildVars>>

\* mutant of TickEnd: a closed stopChannel ends the strategy loop at once
TickEnd_OnCancel ==
    /\ pc = "strategies"
    /\ si > Len(strategyList) \/ stopClosed
    /\ IF rs.IntervalZero
       THEN CloseStopChannel("wait")
       ELSE pc' = "wait" /\ UNCHANGED stopClosed
    /\ UNCHANGED <<tick, cancelVars, retErr, configVars, callVars, listErr, nodes, fetched,
                   loopVars, storeVars, buildVars, evictVars>>

\* after the strategy loop: log the total; if rs.DeschedulingInterval.Seconds() == 0,
\* close(stopChannel)
TickEnd ==
    /\ pc = "strategies"
    /\ si > Len(strategyList)
    /\ IF rs.IntervalZero
       THEN CloseStopChannel("wait")
       ELSE pc' = "wait" /\ UNCHANGED stopClosed
    /\ UNCHANGED <<tick, cancelVars, retErr, configVars, callVars, listErr, nodes, fetched,
                   loopVars, storeVars, buildVars, evictVars>>

\* wait.NonSlidingUntil after the tick body: the timer fires
WaitTimer ==
    /\ pc = "wait"
    /\ pc' = "loop"
    /\ UNCHANGED <<tick, stopClosed, cancelVars, retErr, configVars, callVars, listErr, nodes, fetched,
                   loopVars, storeVars, buildVars, evictVars>>

\* wait.NonSlidingUntil after the tick body: stopChannel is closed, return nil
WaitStop ==
    /\ pc = "wait"
    /\ stopClosed
    /\ pc' = "returned"
    /\ retErr' = Nil
    /\ UNCHANGED <<tick, stopClosed, cancelVars, configVars, callVars, listErr, nodes, fetched,
                   loopVars, storeVars, buildVars, evictVars>>

----------------------------------------------------------------------------

Next ==
    \/ CancelCtx
    \/ GoroutineClose
    \/ LiveInformerSync
    \/ FakeInformerSync
    \/ InitializeStrategies
    \/ LoopStop
    \/ TickStart
    \/ FetchReadyNodes
    \/ BuildCachedClient
    \/ BuildPodEvictor
    \/ SkipStrategy
    \/ TaintRunStart
    \/ TaintListPods
    \/ TaintPodStep
    \/ OtherRunStart
    \/ OtherListPods
    \/ OtherPodStep
    \/ TickEnd
    \/ WaitTimer
    \/ WaitStop

Spec == Init /\ [][Next]_vars

----------------------------------------------------------------------------
(* The functions of the taint strategy and of its plugin wiring, called on
   their own *)

\* values of *api.StrategyParameters: nil, or a struct whose Namespaces,
\* thresholds, LabelSelector ("nil", "valid", or "malformed": one that
\* metav1.LabelSelectorAsSelector rejects), IncludePreferNoSchedule and
\* ExcludedTaints vary
ParamValues ==
    {NilParams} \cup
    [IsNil : {FALSE}, Include : {{}, {"a"}}, Exclude : {{}, {"b"}},
     ThresholdPriority : {<<>>, <<1>>}, ThresholdPriorityClassName : {"", "c"},
     NodeFit : {FALSE}, LabelSelector : {"nil", "valid", "malformed"},
     IncludePreferNoSchedule : BOOLEAN, ExcludedTaints : {{}, {"k3"}}]

\* params that set nothing but the taint strategy's own fields
TaintParamValues ==
    {p \in ParamValues :
        /\ ~p.IsNil
        /\ p.Include = {} /\ p.Exclude = {}
        /\ p.ThresholdPriority = <<>> /\ p.ThresholdPriorityClassName = ""
        /\ p.LabelSelector = "nil"}

\* taints a node may carry
TaintValues ==
    {[key |-> "k1", value |-> "", effect |-> "NoSchedule"],
     [key |-> "k2", value |-> "", effect |-> "PreferNoSchedule"],
     [key |-> "k3", value |-> "", effect |-> "NoSchedule"]}

\* tolerations a pod may carry
TolerationValues ==
    {[key |-> "k1", operator |-> "Exists", value |-> "", effect |-> "NoSchedule"],
     [key |-> "k2", operator |-> "Exists", value |-> "", effect |-> "PreferNoSchedule"],
     [key |-> "k3", operator |-> "Exists", value |-> "", effect |-> "NoSchedule"]}

\* the arguments a call is made with
CallInputs ==
    {[fn |-> "none", params |-> p, tolerations |-> {}, taints |-> {}] : p \in ParamValues}
      \cup [fn : {"none"}, params : TaintParamValues,
            tolerations : SUBSET TolerationValues, taints : SUBSET TaintValues]

\* validateNamespaceArgs: TRUE when it returns an error (a nil *api.Namespaces
\* is one whose Include and Exclude are empty)
validateNamespaceArgs(namespaces) ==
    namespaces.Include # {} /\ namespaces.Exclude # {}

\* validateLabelSelectorArgs: TRUE when it returns an error
validateLabelSelectorArgs(labelSelector) ==
    labelSelector # "nil" /\ labelSelector = "malformed"

\* ValidateRemovePodsViolatingNodeTaintsArgs: TRUE when the aggregate of the
\* two errors is not nil
ValidateRemovePodsViolatingNodeTaintsArgs(args) ==
    \/ validateNamespaceArgs(args.Namespaces)
    \/ validateLabelSelectorArgs(args.LabelSelector)

\* the componentconfig.RemovePodsViolatingNodeTaintsArgs that
\* RemovePodsViolatingNodeTaints2plugin builds from non-nil params
PluginArgs(params) ==
    [Namespaces |-> [Include |-> params.Include, Exclude |-> params.Exclude],
     LabelSelector |-> params.LabelSelector,
     IncludePreferNoSchedule |-> params.IncludePreferNoSchedule,
     ExcludedTaints |-> params.ExcludedTaints]

\* RemovePodsViolatingNodeTaints2plugin: reading the fields of nil params is a
\* nil pointer dereference; otherwise the args are validated and handed to
\* removepodsviolatingnodetaints.New, whose outcome is newOk
RemovePodsViolatingNodeTaints2plugin(params, newOk) ==
    IF params.IsNil THEN "panic"
    ELSE IF ValidateRemovePodsViolatingNodeTaintsArgs(PluginArgs(params)) THEN "error"
    ELSE IF newOk THEN "plugin" ELSE "error"

\* the state of the control loop, which a call on its own leaves alone
runVars == <<pc, tick, stopClosed, cancelVars, retErr, configVars, listErr, nodes, fetched,
             loopVars, storeVars, buildVars, evictVars>>

CallInit ==
    /\ RunInit
    /\ policy = [Strategies |-> StrategyMap(StrategyNames, {}, NilParams),
                 MaxNoOfPodsToEvictPerNode |-> <<>>,
                 MaxNoOfPodsToEvictPerNamespace |-> <<>>]
    /\ rs = [DryRun |-> FALSE, IntervalZero |-> FALSE]
    /\ call \in CallInputs
    /\ callResult = Nil

\* RemovePodsViolatingNodeTaintsStrategy.Validate on a strategy with these params
CallValidate ==
    /\ call.fn = "none"
    /\ call' = [call EXCEPT !.fn = "Validate"]
    /\ callResult' = IF validateRemovePodsViolatingNodeTaintsParams(call.params)
                     THEN "error" ELSE "ok"
    /\ UNCHANGED runVars

\* validation.ValidateRemovePodsViolatingNodeTaintsArgs on the args built
\* from these params
CallValidateArgs ==
    /\ call.fn = "none"
    /\ ~call.params.IsNil
    /\ call' = [call EXCEPT !.fn = "ValidateArgs"]
    /\ callResult' = IF ValidateRemovePodsViolatingNodeTaintsArgs(PluginArgs(call.params))
                     THEN "error" ELSE "ok"
    /\ UNCHANGED runVars

\* RemovePodsViolatingNodeTaints2plugin(params, handle)
Call2plugin ==
    /\ call.fn = "none"
    /\ call' = [call EXCEPT !.fn = "2plugin"]
    /\ \E newOk \in BOOLEAN :
         callResult' = RemovePodsViolatingNodeTaints2plugin(call.params, newOk)
    /\ UNCHANGED runVars

\* one iteration of the pod loop of Run, configured with these params, on a
\* pod with these tolerations on a node with these taints: EvictPod is called
\* or the pod is passed over
CallPodLoopTest ==
    /\ call.fn = "none"
    /\ call' = [call EXCEPT !.fn = "podLoopTest"]
    /\ callResult' = IF NotAllNoScheduleTolerated(call.tolerations, call.taints)
                     THEN "evict" ELSE "keep"
    /\ UNCHANGED runVars

CallNext ==
    \/ CallValidate
    \/ CallValidateArgs
    \/ Call2plugin
    \/ CallPodLoopTest

CallSpec == CallInit /\ [][CallNext]_vars

----------------------------------------------------------------------------
(* The pod loop of the taint strategy on one node, run on its own against a
   pod evictor with a per-node limit *)

MaxPods == 3

\* the pods listed for the node, in list order: for each whether it fails the
\* taint test
ViolatorLists == UNION {[1..n -> BOOLEAN] : n \in 0..MaxPods}

\* the arguments of a pod loop: the listed pods, the evictor's per-node limit,
\* and the places in the list of the pods whose eviction the API rejects
PodLoopInputs ==
    {[fn |-> "podLoop", violator |-> v, cap |-> c, rejected |-> r] :
        v \in ViolatorLists, c \in CapValues, r \in SUBSET (1..MaxPods)}

\* the loop before its first iteration: i is the index of the pod at hand,
\* nodepodCount the evictor's counter for the node, outcomes what happened to
\* the pods so far, broke whether an EvictPod error ended the loop
PodLoopStart == [i |-> 1, nodepodCount |-> 0, outcomes |-> <<>>, broke |-> FALSE]

\* PodEvictor.EvictPod on a node with this limit and counter: at the cap
\* (false, nil), on a rejection an error, else the pod is evicted
EvictOutcome(cap, count, rejects) ==
    IF AtCap(cap, count) THEN "capped"
    ELSE IF rejects THEN "error" ELSE "evicted"

PodLoopInit ==
    /\ RunInit
    /\ policy = [Strategies |-> StrategyMap(StrategyNames, {}, NilParams),
                 MaxNoOfPodsToEvictPerNode |-> <<>>,
                 MaxNoOfPodsToEvictPerNamespace |-> <<>>]
    /\ rs = [DryRun |-> FALSE, IntervalZero |-> FALSE]
    /\ call \in PodLoopInputs
    /\ callResult = PodLoopStart

\* the loop has gone through the list or has been left by break
PodLoopOver == callResult.i > Len(call.violator) \/ callResult.broke

\* one iteration of the pod loop: a pod that fails the taint test is handed to
\* EvictPod, and an error breaks out of the loop
PodLoopStep ==
    /\ ~PodLoopOver
    /\ LET i == callResult.i
           result == IF call.violator[i]
                     THEN EvictOutcome(call.cap, callResult.nodepodCount, i \in call.rejected)
                     ELSE "passed"
       IN  callResult' =
             [i |-> IF result = "error" THEN i ELSE i + 1,
              nodepodCount |-> IF result = "evicted"
                               THEN callResult.nodepodCount + 1
                               ELSE callResult.nodepodCount,
              outcomes |-> Append(callResult.outcomes, result),
              broke |-> result = "error"]
    /\ UNCHANGED <<call, runVars>>

PodLoopNext == PodLoopStep

PodLoopSpec == PodLoopInit /\ [][PodLoopNext]_vars

----------------------------------------------------------------------------
(* Properties *)

\* successful evictions of this tick on a node, in a namespace, in all
NodeEvictions(n) == Cardinality({p \in AllPods : PodNode[p] = n /\ evictedBy[p] # 0})

NamespaceEvictions(ns) == Cardinality({p \in AllPods : PodNamespace[p] = ns /\ evictedBy[p] # 0})

TotalEvictions == Cardinality({p \in AllPods : evictedBy[p] # 0})

\* C1: within a tick the successful evictions on a node never exceed
\* MaxNoOfPodsToEvictPerNode when it is set, those in a namespace never exceed
\* MaxNoOfPodsToEvictPerNamespace when it is set, and EvictPod refuses a pod
\* for a cap only when a set cap is reached (an unset cap limits nothing).
C1_EvictionCaps ==
    /\ \A n \in NodeNames :
         policy.MaxNoOfPodsToEvictPerNode # <<>>
            => NodeEvictions(n) <= policy.MaxNoOfPodsToEvictPerNode[1]
    /\ \A ns \in Namespaces :
         policy.MaxNoOfPodsToEvictPerNamespace # <<>>
            => NamespaceEvictions(ns) <= policy.MaxNoOfPodsToEvictPerNamespace[1]
    /\ lastEvict.result = "capped"
         => \/ /\ policy.MaxNoOfPodsToEvictPerNode # <<>>
               /\ NodeEvictions(lastEvict.node) = policy.MaxNoOfPodsToEvictPerNode[1]
            \/ /\ policy.MaxNoOfPodsToEvictPerNamespace # <<>>
               /\ NamespaceEvictions(PodNamespace[lastEvict.pod])
                     = policy.MaxNoOfPodsToEvictPerNamespace[1]

\* a node cap is set and reached, a further pod of the node was refused, and
\* no namespace cap is set
C1_Witness ==
    /\ policy.MaxNoOfPodsToEvictPerNode # <<>>
    /\ policy.MaxNoOfPodsToEvictPerNamespace = <<>>
    /\ lastEvict.result = "capped"
    /\ NodeEvictions(lastEvict.node) = policy.MaxNoOfPodsToEvictPerNode[1]
    /\ evictedBy[lastEvict.pod] = 0

\* C2: within a tick no EvictPod call is made for a pod whose eviction has
\* already succeeded in that tick.
C2_EvictedAtMostOnce == reEvicted = {}

\* the ready-node list of this tick has zero or one node
SmallCluster == fetched = "ok" /\ Len(nodes) <= 1

\* C3: in a tick whose ready-node list has zero or one node, no pod evictor
\* is built, no strategy runs, no eviction is issued, stopChannel is closed
\* and no later tick starts.
C3_ClusterSizeBrake ==
    /\ [](SmallCluster =>
            /\ evictorTick # tick
            /\ started = <<>>
            /\ running = {}
            /\ lastEvict = NoEvict
            /\ stopClosed
            /\ pc \in {"wait", "loop", "returned", "panicked"})
    /\ [][SmallCluster => tick' = tick /\ SmallCluster']_vars

\* a tick that saw exactly one ready node, after which the loop has returned
C3_Witness == SmallCluster /\ Len(nodes) = 1 /\ pc = "returned" /\ tick < MaxTicks

\* C4: in a dry run the pods of the real cluster never change, and every
\* eviction the pod evictor issues goes to the fake client, where a
\* successful one deletes exactly that pod from the tracker.
C4_DryRunLeavesCluster ==
    /\ [](rs.DryRun => clusterPods = AllPods)
    /\ [][rs.DryRun /\ lastEvict' # lastEvict /\ lastEvict'.result # Nil
            => /\ lastEvict'.target \in {"fake", "none"}
               /\ lastEvict'.result = "evicted"
                    => /\ lastEvict'.pod \in fakePods
                       /\ fakePods' = fakePods \ {lastEvict'.pod}]_vars

\* a dry run in its second tick, two strategies called, a simulated eviction done
C4_Witness ==
    /\ rs.DryRun
    /\ tick = 2
    /\ Len(started) = 2
    /\ lastEvict.result = "evicted"
    /\ lastEvict.pod \notin fakePods

\* C5: in a dry run no strategy is handed, by its listing of a node's pods, a
\* pod whose simulated eviction succeeded in an earlier strategy of the tick.
C5_LaterStrategiesObserve ==
    rs.DryRun /\ pc = "pods"
        => \A i \in 1..Len(pods) : evictedBy[pods[i]] \in {0, si}

\* the tick body of the current tick has returned
TickBodyOver == tick > 0 /\ pc \in {"wait", "loop", "returned"}

\* C6: with a zero interval the tick body runs once, leaves stopChannel
\* closed, and no second tick starts.
C6_ZeroIntervalRunsOnce ==
    rs.IntervalZero => /\ tick <= 1
                       /\ TickBodyOver => stopClosed

\* C7: a tick whose ready-node fetch failed runs no strategy, builds no
\* evictor, issues no eviction, closes stopChannel, and RunDeschedulerStrategies
\* goes on to return nil.
C7_ReadyNodesFailure ==
    fetched = "err"
        => /\ started = <<>>
           /\ evictorTick # tick
           /\ lastEvict = NoEvict
           /\ stopClosed
           /\ pc \in {"wait", "loop", "returned"}
           /\ retErr = Nil

\* C8 as stated: after a failed pod listing the tick is over (no node is
\* listed, no pod is processed, no strategy is started any more) and
\* stopChannel is closed.
C8_ListFailureStopsSchedule ==
    listErr # 0
        => /\ pc \notin {"list", "pods"}
           /\ started[Len(started)] = strategyList[listErr]
           /\ pc \in {"wait", "loop", "returned"} => stopClosed

\* C8, amended: a failed pod listing ends the Run of that strategy only. The
\* step that fails returns to the strategy loop at the next strategy without
\* evicting and without closing stopChannel; afterwards that strategy is not
\* running any more and every further eviction of the tick comes from a later
\* strategy.
C8_ListFailureEndsRun ==
    /\ [](listErr # 0 => si > listErr /\ listErr \notin running)
    /\ [][listErr' # listErr /\ listErr' # 0
            => /\ listErr' = si
               /\ pc' = "strategies"
               /\ si' = si + 1
               /\ stopClosed' = stopClosed
               /\ lastEvict' = lastEvict
               /\ tick' = tick]_vars
    /\ [][listErr # 0 /\ tick' = tick /\ lastEvict' # lastEvict
            => lastEvict'.si > listErr]_vars

\* after a failed listing in the taint strategy a later strategy evicts a pod
\* in the same tick, with stopChannel open
C8_Witness ==
    /\ listErr # 0
    /\ strategyList[listErr] = TaintStrategyName
    /\ pc = "pods"
    /\ si > listErr
    /\ lastEvict.result = "evicted"
    /\ lastEvict.si = si
    /\ ~stopClosed

\* the tick passed the ready-node check
PassedNodeCheck == fetched = "ok" /\ Len(nodes) > 1

RegistrationOrder ==
    <<"RemoveDuplicates",
      "LowNodeUtilization",
      "HighNodeUtilization",
      "RemovePodsViolatingInterPodAntiAffinity",
      "RemovePodsViolatingNodeAffinity",
      "RemovePodsViolatingNodeTaints",
      "RemovePodsHavingTooManyRestarts",
      "PodLifeTime",
      "RemovePodsViolatingTopologySpreadConstraint",
      "RemoveFailedPods">>

PositionOf(name) == CHOOSE i \in 1..Len(RegistrationOrder) : RegistrationOrder[i] = name

\* C10: the strategies whose Run is called in a tick are enabled ones, called
\* in registration order; at most one Run is in progress at any time; and a
\* tick that went through its strategy loop has called exactly the enabled
\* strategies, in registration order.
C10_FixedOrder ==
    /\ \A i \in 1..Len(started) : Enabled(started[i])
    /\ \A i, j \in 1..Len(started) :
         i < j => PositionOf(started[i]) < PositionOf(started[j])
    /\ Cardinality(running) <= 1
    /\ pc \in {"list", "pods"}
         => running = {si} /\ started[Len(started)] = RegistrationOrder[si]
    /\ TickBodyOver /\ evictorTick = tick
         => started = SelectSeq(RegistrationOrder, Enabled)

\* a tick in which RemoveDuplicates and then the taint strategy ran
C10_Witness ==
    /\ TickBodyOver
    /\ started = <<"RemoveDuplicates", "RemovePodsViolatingNodeTaints">>

\* the strategy loop is at a strategy whose Enabled() is false
AtDisabledStrategy ==
    /\ pc = "strategies"
    /\ si <= Len(strategyList)
    /\ ~Enabled(CurrentName)

\* C11: a disabled strategy is never run and issues no eviction; the step
\* over it only moves the strategy loop to the next strategy, leaving
\* stopChannel, the evictor and the cluster as they are; and a tick that went
\* through its strategy loop has run every enabled strategy, whatever disabled
\* ones stand before it.
C11_DisabledSkipped ==
    /\ [](\A i \in 1..Len(started) : policy.Strategies[started[i]].Enabled)
    /\ [](pc \in {"list", "pods"} => policy.Strategies[strategyList[si]].Enabled)
    /\ [](lastEvict.tick = tick /\ lastEvict.si > 0
            => policy.Strategies[strategyList[lastEvict.si]].Enabled)
    /\ [][AtDisabledStrategy /\ si' # si
            => /\ si' = si + 1
               /\ pc' = "strategies"
               /\ UNCHANGED <<stopClosed, retErr, started, running, storeVars, evictVars>>]_vars
    /\ [](TickBodyOver /\ evictorTick = tick
            => \A i \in 1..Len(strategyList) :
                 policy.Strategies[strategyList[i]].Enabled
                   => \E j \in 1..Len(started) : started[j] = strategyList[i])

\* the taint strategy evicted a pod in a tick in which the disabled
\* RemoveDuplicates before it was skipped, and stopChannel is open
C11_Witness ==
    /\ pc = "pods"
    /\ CurrentName = TaintStrategyName
    /\ ~Enabled("RemoveDuplicates")
    /\ started = <<TaintStrategyName>>
    /\ lastEvict.tick = tick /\ lastEvict.result = "evicted"
    /\ ~stopClosed

\* the tick is inside its strategy loop
InStrategyLoop == pc \in {"strategies", "list", "pods"}

\* C12 as stated: once the context is cancelled no new tick starts.  The
\* goroutine of Run closes stopChannel some time after ctx.Done(), and the loop
\* looks at stopChannel only.
C12_NoTickAfterCancel ==
    [][ctxDone => tick' = tick]_vars

\* C12: once stopChannel is closed no new tick starts; a tick inside its
\* strategy loop leaves it only after the last strategy, whether or not the
\* context is cancelled or stopChannel closed meanwhile, so that a tick which
\* built its evictor has run every enabled strategy when the loop exits.
C12_CancelBetweenTicks ==
    /\ [][stopClosed => tick' = tick]_vars
    /\ [][InStrategyLoop /\ ~InStrategyLoop'
            => /\ si > Len(strategyList)
               /\ running = {}
               /\ pc' \in {"wait", "panicked"}]_vars
    /\ [](evictorTick = tick /\ tick > 0 /\ pc \in {"wait", "loop", "returned", "panicked"}
            => /\ running = {}
               /\ \A i \in 1..Len(strategyList) :
                    policy.Strategies[strategyList[i]].Enabled
                      => \E j \in 1..Len(started) : started[j] = strategyList[i])

\* stopChannel was closed by the goroutine of Run during a tick, and the
\* second enabled strategy of that tick is in its pod loop
C12_Witness ==
    /\ ctxDone /\ stopClosed /\ goroutine = "done"
    /\ pc = "pods"
    /\ Len(started) = 2

\* the policy enables the taint strategy with params whose Namespaces have
\* both Include and Exclude non-empty
BothNamespacesSet ==
    /\ TaintStrategyName \in DOMAIN policy.Strategies
    /\ policy.Strategies[TaintStrategyName].Enabled
    /\ ~policy.Strategies[TaintStrategyName].Params.IsNil
    /\ policy.Strategies[TaintStrategyName].Params.Include # {}
    /\ policy.Strategies[TaintStrategyName].Params.Exclude # {}

\* C13: with both namespace sets non-empty the taint strategy's Run returns
\* before its node loop in every tick: it never lists the pods of a node and
\* never calls EvictPod.
C13_BothNamespacesNotRun ==
    BothNamespacesSet
      => /\ ~(pc \in {"list", "pods"} /\ CurrentName = TaintStrategyName)
         /\ \A i \in running : strategyList[i] # TaintStrategyName
         /\ lastEvict.si > 0 => strategyList[lastEvict.si] # TaintStrategyName
         /\ \A p \in AllPods :
              evictedBy[p] > 0 => strategyList[evictedBy[p]] # TaintStrategyName
         /\ listErr > 0 => strategyList[listErr] # TaintStrategyName

\* the second tick is over, Run of the taint strategy was called in it with
\* both namespace sets non-empty, and no pod was evicted
C13_Witness ==
    /\ BothNamespacesSet
    /\ tick = 2 /\ TickBodyOver
    /\ started = <<TaintStrategyName>>
    /\ lastEvict = NoEvict
    /\ clusterPods = AllPods

\* the two mutual exclusions of the params: Namespaces.Include against
\* Namespaces.Exclude, ThresholdPriority against ThresholdPriorityClassName
ExclusionBroken(params) ==
    \/ params.Include # {} /\ params.Exclude # {}
    \/ params.ThresholdPriority # <<>> /\ params.ThresholdPriorityClassName # ""

\* C14: validation of the taint strategy's params, by Validate of the legacy
\* strategy and by ValidateRemovePodsViolatingNodeTaintsArgs of the plugin
\* wiring alike, returns an error exactly when the namespace include and
\* exclude sets are both non-empty or a numeric priority threshold and a
\* priority class name are both given.
C14_ValidationRule ==
    call.fn \in {"Validate", "ValidateArgs"}
      => (callResult = "error" <=> ExclusionBroken(call.params))

\* C14, the legacy path alone: Validate returns an error exactly when one of
\* the two mutual exclusions is broken.
C14_LegacyValidationRule ==
    call.fn = "Validate"
      => (callResult = "error" <=> ExclusionBroken(call.params))

\* the policy enables the taint strategy with params that
\* validateRemovePodsViolatingNodeTaintsParams rejects
InvalidTaintParams ==
    /\ TaintStrategyName \in DOMAIN policy.Strategies
    /\ policy.Strategies[TaintStrategyName].Enabled
    /\ validateRemovePodsViolatingNodeTaintsParams(policy.Strategies[TaintStrategyName].Params)

\* C15: a validation error of the taint strategy's params is found before the
\* first tick and aborts startup, for the run or for the strategy: with such
\* params no tick calls the strategy's Run, where the params would be found
\* invalid for the first time.
C15_ValidationBeforeFirstTick ==
    InvalidTaintParams
      => \/ tick = 0
         \/ \A i \in 1..Len(started) : started[i] # TaintStrategyName

\* the place of the taint strategy in the strategy list
TaintIndex == CHOOSE i \in 1..Len(strategyList) : strategyList[i] = TaintStrategyName

\* the pod fails to tolerate some NoSchedule taint of the node
FailsNoScheduleTaint(pod, node) ==
    \E t \in NodeTaints[node] :
        /\ t.effect = "NoSchedule"
        /\ \A toleration \in PodTolerations[pod] : ~ToleratesTaint(toleration, t)

\* this step is an iteration of the pod loop of the taint strategy
TaintPodIteration ==
    /\ pc = "pods"
    /\ CurrentName = TaintStrategyName
    /\ <<pc, si, ni, pi>>' # <<pc, si, ni, pi>>

\* Run of the taint strategy, called in this tick with valid params, has just
\* returned, and no EvictPod call was made in this tick
TaintRunOverWithoutCall ==
    /\ ~InvalidTaintParams
    /\ pc = "strategies"
    /\ si = TaintIndex + 1
    /\ \E i \in 1..Len(started) : started[i] = TaintStrategyName
    /\ lastEvict = NoEvict

\* a pod of the cluster, assigned to a ready node of this tick, that passes
\* the strategy's filter and fails to tolerate a NoSchedule taint of the node
SelectableViolators ==
    {p \in clusterPods :
        /\ \E i \in 1..Len(nodes) : nodes[i] = PodNode[p]
        /\ PodFilter(policy.Strategies[TaintStrategyName].Params, p)
        /\ FailsNoScheduleTaint(p, PodNode[p])}

\* C16 as stated, in the case of a run that made no EvictPod call (so that no
\* call returned an error): no selectable violator is left on a ready node.
C16_EveryViolatorCalled ==
    TaintRunOverWithoutCall => SelectableViolators = {}

\* C16: the pod loop of the taint strategy calls EvictPod(pod, node,
\* "NodeTaint") for the pod at hand exactly when the pod fails to tolerate a
\* NoSchedule taint of the node, so a pod tolerating them all is never evicted
\* by it; the loop takes the pods listed for the node one by one, in order, as
\* long as no EvictPod call returns an error; and a run that listed the pods of
\* every node and made no call leaves no selectable violator behind.
C16_EvictIffViolator ==
    /\ [][TaintPodIteration
            => /\ lastEvict' # lastEvict <=> FailsNoScheduleTaint(pods[pi], nodes[ni])
               /\ lastEvict' # lastEvict
                    => /\ lastEvict'.pod = pods[pi]
                       /\ lastEvict'.node = nodes[ni]
                       /\ lastEvict'.reason = "NodeTaint"]_vars
    /\ [][pc = "list" /\ CurrentName = TaintStrategyName /\ pc' = "pods"
            => /\ pods' = ListAllPodsOnANode(nodes[ni], CurrentStrategy.Params)
               /\ pi' = 1]_vars
    /\ [][(TaintPodIteration /\ pi < Len(pods)
             /\ ~(lastEvict' # lastEvict /\ lastEvict'.result = "error"))
            => /\ pi' = pi + 1
               /\ UNCHANGED <<pc, si, ni, pods>>]_vars
    /\ [](\A p \in AllPods :
            evictedBy[p] = TaintIndex => \E n \in NodeNames : FailsNoScheduleTaint(p, n))
    /\ [](TaintRunOverWithoutCall /\ listErr # TaintIndex => SelectableViolators = {})

\* the taint strategy evicted p1, which tolerates nothing, passed over p2,
\* which tolerates the taint of n1 with an Exists toleration, and went on to
\* the second node
C16_Witness ==
    /\ pc = "list" /\ ni = 2
    /\ CurrentName = TaintStrategyName
    /\ lastEvict.tick = tick /\ lastEvict.pod = "p1" /\ lastEvict.reason = "NodeTaint"
    /\ evictedBy["p1"] = TaintIndex
    /\ evictedBy["p2"] = 0
    /\ "p2" \in clusterPods

\* this step is an iteration of the pod loop of the taint strategy in which
\* EvictPod returned an error
TaintEvictError ==
    /\ TaintPodIteration
    /\ lastEvict' # lastEvict
    /\ lastEvict'.result = "error"

\* C17: when EvictPod returns an error the pod loop of the taint strategy
\* breaks: the run goes to the next node of the list (or returns after the
\* last node) without looking at the remaining pods of the node, and while
\* the run lasts it does not come back to that node.
C17_EvictErrorAbandonsNode ==
    /\ [][TaintEvictError
            => IF ni < Len(nodes)
               THEN /\ pc' = "list"
                    /\ ni' = ni + 1
                    /\ UNCHANGED <<si, running, stopClosed>>
               ELSE /\ pc' = "strategies"
                    /\ si' = si + 1
                    /\ UNCHANGED stopClosed]_vars
    /\ []((pc \in {"list", "pods"} /\ si = TaintIndex
             /\ lastEvict.tick = tick /\ lastEvict.si = TaintIndex
             /\ lastEvict.result = "error")
            => \E i \in 1..(ni - 1) : nodes[i] = lastEvict.node)
    /\ [][(pc = "pods" /\ si = TaintIndex /\ lastEvict.tick = tick
             /\ lastEvict.si = TaintIndex /\ lastEvict.result = "error"
             /\ lastEvict' # lastEvict)
            => lastEvict'.node # lastEvict.node]_vars

\* EvictPod returned an error for p1 on the first node while p2 of that node
\* was still to come, and the run is at the second node
C17_Witness ==
    /\ pc = "list" /\ ni = 2
    /\ si = TaintIndex
    /\ lastEvict.tick = tick /\ lastEvict.si = TaintIndex
    /\ lastEvict.result = "error"
    /\ lastEvict.pod = "p1" /\ lastEvict.node = nodes[1]
    /\ "p2" \in ListCache

\* the places in the list of the pods that fail the taint test
ViolatorPlaces == {i \in 1..Len(call.violator) : call.violator[i]}

\* the number of violators listed before place i
ViolatorsBefore(i) == Cardinality({j \in ViolatorPlaces : j < i})

\* a finished pod loop on a node with more violators than the per-node limit
\* allows, none of whose evictions the API rejects
OverTheCap ==
    /\ PodLoopOver
    /\ call.cap # <<>>
    /\ call.cap[1] < Cardinality(ViolatorPlaces)
    /\ call.rejected \cap ViolatorPlaces = {}

\* C18: on a node with k violators and a per-node limit c < k, with no
\* rejection, the pod loop evicts exactly the first c violators in list order;
\* for the other k - c EvictPod returns (false, nil), so they are left alone
\* and the loop is not left by an error.
C18_FirstCEvicted ==
    OverTheCap
      => /\ ~callResult.broke
         /\ callResult.nodepodCount = call.cap[1]
         /\ Len(callResult.outcomes) = Len(call.violator)
         /\ \A i \in ViolatorPlaces :
              callResult.outcomes[i] = IF ViolatorsBefore(i) < call.cap[1]
                                       THEN "evicted" ELSE "capped"
         /\ \A i \in 1..Len(call.violator) :
              i \notin ViolatorPlaces => callResult.outcomes[i] = "passed"

\* three pods listed, the first and the last violators, a limit of one: the
\* first is evicted, the last is left
C18_Witness ==
    /\ OverTheCap
    /\ call.violator = <<TRUE, FALSE, TRUE>>
    /\ callResult.outcomes = <<"evicted", "passed", "capped">>

\* the taints of the node that the configured params make count: NoSchedule
\* ones, PreferNoSchedule ones too when IncludePreferNoSchedule is set, none
\* whose key is in ExcludedTaints
CountedTaints(params, taints) ==
    {t \in taints :
        /\ \/ t.effect = "NoSchedule"
           \/ params.IncludePreferNoSchedule /\ t.effect = "PreferNoSchedule"
        /\ t.key \notin params.ExcludedTaints}

\* C19: the pod loop of Run hands a pod to EvictPod exactly when its
\* tolerations fail to cover a taint that counts under the strategy's params
\* (IncludePreferNoSchedule, ExcludedTaints).
C19_HonoursTaintParams ==
    call.fn = "podLoopTest"
      => (callResult = "evict"
            <=> \E t \in CountedTaints(call.params, call.taints) :
                  \A toleration \in call.tolerations : ~ToleratesTaint(toleration, t))

\* C20: with nil params Validate returns no error, and
\* RemovePodsViolatingNodeTaints2plugin neither crashes nor returns an error.
C20_NilParamsValid ==
    call.params.IsNil
      => /\ call.fn = "Validate" => callResult = "ok"
         /\ call.fn = "2plugin" => callResult \notin {"panic", "error"}

\* C20, the legacy path alone: with nil params Validate returns no error.
C20_NilParamsValidLegacy ==
    call.params.IsNil /\ call.fn = "Validate" => callResult = "ok"

\* C21: stopChannel is closed at most once: no interleaving of the goroutine
\* of Run and the tick body executes close(stopChannel) on the channel the
\* other has already closed.
C21_ClosedAtMostOnce ==
    pc # "panicked"

\* a dry-run tick that passed the ready-node check and whose body is over
\* without a snapshot of its own: cachedClient or the index build failed
SnapshotFailed ==
    /\ rs.DryRun
    /\ tick > 0
    /\ PassedNodeCheck
    /\ pc \in {"wait", "loop", "returned", "panicked"}
    /\ snapshotTick # tick

EntryMissing ==
    \E i \in 1..Len(strategyList) : strategyList[i] \notin DOMAIN policy.Strategies

\* C23: when the strategy map lacks the entry of a registered strategy,
\* RunDeschedulerStrategies returns the error of initializeStratagies and
\* nothing else happens: no tick starts, the ready nodes are never fetched, no
\* strategy runs and no pod is evicted.
C23_MissingEntryFailsInit ==
    EntryMissing
      => /\ pc \in {"init", "returned"}
         /\ pc = "returned" => retErr = "error"
         /\ tick = 0
         /\ fetched = "none"
         /\ started = <<>> /\ running = {}
         /\ lastEvict = NoEvict
         /\ evictorTick = 0
         /\ clusterPods = AllPods

\* RunDeschedulerStrategies has returned the error for a policy without the
\* entry of the taint strategy, although PodLifeTime is enabled in it
C23_Witness ==
    /\ TaintStrategyName \notin DOMAIN policy.Strategies
    /\ policy.Strategies["PodLifeTime"].Enabled
    /\ pc = "returned"
    /\ retErr = "error"
    /\ tick = 0

====
